---- MODULE Spec2Model ----
(***************************************************************************)
(* DocuMentor front end: the SSE reader of services/api.ts (askStream),    *)
(* the generic request handler of lib/api (apiRequest) and the state of    *)
(* the DocuMentorLayout components (messages, loading flag, requests in    *)
(* flight), as state machines.                                             *)
(*                                                                         *)
(* Text is modelled as sequences of one-character strings.  Numbers that   *)
(* are fractions in the program (confidence, response times in seconds)    *)
(* are fixed-point integers in thousandths.                                *)
(***************************************************************************)
EXTENDS Integers, Sequences, FiniteSets, TLC

\* ------------------------------------------------------------------ bounds

\* Lines the server writes before an optional unterminated tail.
MaxLines == 2

\* ------------------------------------------------------------ text helpers

NL == "\n"
Q  == "\""
SP == " "

\* String.prototype.startsWith
StartsWith(s, p) == Len(s) >= Len(p) /\ SubSeq(s, 1, Len(p)) = p

\* String.prototype.slice(n), n >= 0
Slice(s, n) == SubSeq(s, n + 1, Len(s))

\* chunk.split('\n'): k newlines give k + 1 pieces (the last one is what
\* follows the last newline, possibly empty).  Each piece carries the
\* 1-based index of its first character within s.  SplitFrom gives the
\* pieces of s from index first on.
RECURSIVE SplitFrom(_, _)
SplitFrom(s, first) ==
    LET nls == {i \in first..Len(s) : s[i] = NL}
    IN  IF nls = {}
          THEN <<[text |-> SubSeq(s, first, Len(s)), at |-> first]>>
          ELSE LET j == CHOOSE i \in nls : \A k \in nls : i <= k
               IN  <<[text |-> SubSeq(s, first, j - 1), at |-> first]>> \o SplitFrom(s, j + 1)

Split(s) == SplitFrom(s, 1)

\* Leading / trailing white space removed (JSON white space and
\* String.prototype.trim agree on the characters used here).
RECURSIVE TrimLeft(_)
TrimLeft(s) == IF s # <<>> /\ Head(s) \in {SP, NL} THEN TrimLeft(Tail(s)) ELSE s

RECURSIVE TrimRight(_)
TrimRight(s) ==
    IF s # <<>> /\ s[Len(s)] \in {SP, NL} THEN TrimRight(SubSeq(s, 1, Len(s) - 1)) ELSE s

Trim(s) == TrimRight(TrimLeft(s))

\* ------------------------------------------------------------- JSON.parse
\* JSON over the characters the modelled streams use: numbers of the digits
\* 1 and 2, strings without escapes, objects with at most one member (the
\* alphabet has no comma, bracket or backslash), white space between tokens.

Digits == {"1", "2"}

IsJSONNumber(t) == Len(t) > 0 /\ \A i \in 1..Len(t) : t[i] \in Digits

IsJSONString(t) ==
    /\ Len(t) >= 2
    /\ t[1] = Q
    /\ t[Len(t)] = Q
    /\ \A i \in 2..(Len(t) - 1) : t[i] # Q

\* The colon that separates the key of a one-member object body m from its value.
KeyColons(m) == {i \in 1..Len(m) : m[i] = ":" /\ IsJSONString(Trim(SubSeq(m, 1, i - 1)))}

RECURSIVE IsJSON(_)
IsJSON(s) ==
    LET t == Trim(s)
        n == Len(t)
    IN  \/ IsJSONNumber(t)
        \/ IsJSONString(t)
        \/ /\ n >= 2
           /\ t[1] = "{"
           /\ t[n] = "}"
           /\ LET m == Trim(SubSeq(t, 2, n - 1))
              IN  \/ m = <<>>
                  \/ \E i \in KeyColons(m) : IsJSON(SubSeq(m, i + 1, Len(m)))

\* The parsed value, written canonically (what JSON.stringify would print).
RECURSIVE Canon(_)
Canon(s) ==
    LET t == Trim(s)
        n == Len(t)
    IN  IF IsJSONNumber(t) \/ IsJSONString(t) THEN t
        ELSE LET m == Trim(SubSeq(t, 2, n - 1))
             IN  IF m = <<>> THEN <<"{", "}">>
                 ELSE LET i == CHOOSE j \in KeyColons(m) : IsJSON(SubSeq(m, j + 1, Len(m)))
                      IN  <<"{">> \o Trim(SubSeq(m, 1, i - 1)) \o <<":">>
                              \o Canon(SubSeq(m, i + 1, Len(m))) \o <<"}">>

SyntaxError == <<"SyntaxError">>

JSONParse(s) == IF IsJSON(s) THEN Canon(s) ELSE SyntaxError

\* ------------------------------------------------------------------ state

VARIABLES
    wire,          \* askStream: the body the server writes (one character per byte)
    pos,           \* askStream: characters of wire already returned by reader.read()
    chunks,        \* askStream: the onChunk invocations made so far, in order
    streamPc,      \* askStream: "idle", "reading", "done" (returned) or "failed" (threw)
    response,      \* askStream: the response fetch resolved with
    streamFetches, \* askStream: fetch calls issued
    readCalls,     \* askStream: reader.read() calls that have resolved
    streamError    \* askStream: the error thrown, NoError while none

streamVars == <<wire, pos, chunks, streamPc, response, streamFetches, readCalls, streamError>>

VARIABLES
    layout,         \* which DocuMentorLayout is mounted: "service" (documenterAPI) or "lib" (api)
    messages,       \* useState<Message[]>
    isLoading,      \* useState(false)
    selectedSource, \* useState: undefined ("service") or 'all' ("lib") at first
    conversationId, \* useState<string | null>(null), "lib" only
    pending,        \* the /ask calls awaited by handleSendMessage, with what each closure captured
    toast,          \* the notification raised last
    now,            \* Date.now()
    timers,         \* setTimeout callbacks of WelcomeScreen.handleSampleQuestion not yet run
    lastOp          \* the handler that ran last and what it was given

layoutVars == <<layout, messages, isLoading, selectedSource, conversationId, pending,
                toast, now, timers, lastOp>>

VARIABLES
    isDarkMode,       \* useState: the theme shown
    savedTheme,       \* localStorage item 'documentor-theme': "null" while absent
    prefersDark,      \* matchMedia('(prefers-color-scheme: dark)').matches
    sidebarCollapsed, \* useState(false): sidebarCollapsed ("lib"), !isSidebarOpen ("service")
    rootDark,         \* document.documentElement.classList.contains('dark')
    themeBefore       \* history: <<isDarkMode, rootDark, savedTheme>> when toggleDarkMode was last called

shellVars == <<isDarkMode, savedTheme, prefersDark, sidebarCollapsed, rootDark, themeBefore>>

VARIABLES
    showCommandPalette, \* useState(false): the isOpen prop of the CommandPalette
    query,              \* CommandPalette: useState('')
    selectedIndex       \* CommandPalette: useState(0)

paletteVars == <<showCommandPalette, query, selectedIndex>>

VARIABLES
    uploads,       \* the /upload calls awaited by handleFileUpload: the name of each file
    uploadOutcome  \* what the handleFileUpload call settled last gave its caller

uploadVars == <<uploads, uploadOutcome>>

vars == <<streamVars, layoutVars, shellVars, paletteVars, uploadVars>>

\* ------------------------------------------------- the stream decoder

DataPrefix == <<"d", "a", "t", "a", ":", SP>>

PrefixLen == 6

\* The lines a server may write (without their newline).
LineA       == DataPrefix \o <<"{", Q, "a", Q, ":", "1", "}">>
LineB       == DataPrefix \o <<"{", Q, "b", Q, ":", "2", "}">>
LineBad     == DataPrefix \o <<"{", "a">>
LineNoSpace == <<"d", "a", "t", "a", ":", "1">>
LineBlank   == <<>>

Lines == {LineA, LineB, LineBad, LineNoSpace, LineBlank}

RECURSIVE Join(_)
Join(ls) == IF ls = <<>> THEN <<>> ELSE Head(ls) \o <<NL>> \o Join(Tail(ls))

\* The lines ls as the server writes them; the newline of the last one is
\* missing when the stream ends before the line was terminated.
Body(ls, terminated) ==
    IF terminated THEN Join(ls) ELSE SubSeq(Join(ls), 1, Len(Join(ls)) - 1)

Bodies ==
    {Body(ls, t) : ls \in UNION {[1..n -> Lines] : n \in 1..MaxLines}, t \in BOOLEAN}

BodyAB == Body(<<LineA, LineB>>, TRUE)

\* Lines of other shapes: a number as payload, and an SSE comment (a line
\* that starts with a colon) with 'data: ' further on.
LineNum     == DataPrefix \o <<"1", "2">>
LineComment == <<":", SP>> \o DataPrefix \o <<"1">>

FieldLines == {LineA, LineNum, LineComment, LineNoSpace, LineBlank}

FieldBodies ==
    {Body(ls, t) : ls \in UNION {[1..n -> FieldLines] : n \in 1..MaxLines}, t \in BOOLEAN}

\* response.ok
Ok(resp) == resp.status \in 200..299

Statuses == {200, 204, 404, 500}

NoResponse == [status |-> 0, hasBody |-> FALSE]

NoError == [prefix |-> "", status |-> 0]

\* Variant: the missing body is not checked.
StreamGuardIgnoresBody(resp) == ~Ok(resp)

\* if (!response.ok || !response.body)
StreamGuardFails(resp) == ~Ok(resp) \/ ~resp.hasBody

\* The pieces of one decoded read that reach onChunk, in the order of the
\* for loop: those that start with 'data: ' and whose remainder parses.
\* base is the number of characters read before this chunk.
IsEvent(piece) ==
    StartsWith(piece.text, DataPrefix) /\ JSONParse(Slice(piece.text, PrefixLen)) # SyntaxError

ToCall(piece, base) ==
    [data |-> JSONParse(Slice(piece.text, PrefixLen)), at |-> base + piece.at]

\* Variant: the lines of a read are dispatched last to first.
ProcessChunkReversed(chunk, base) ==
    LET hit == SelectSeq(Split(chunk), IsEvent)
    IN  [k \in 1..Len(hit) |-> ToCall(hit[Len(hit) + 1 - k], base)]

ProcessChunk(chunk, base) ==
    LET hit == SelectSeq(Split(chunk), IsEvent)
    IN  [k \in 1..Len(hit) |-> ToCall(hit[k], base)]

StreamIdle ==
    /\ pos = 0
    /\ chunks = <<>>
    /\ streamPc = "idle"
    /\ response = NoResponse
    /\ streamFetches = 0
    /\ readCalls = 0
    /\ streamError = NoError

\* const response = await fetch(.../stream-ask); the guard; getReader().
askStreamFetch ==
    /\ streamPc = "idle"
    /\ \E st \in Statuses, hb \in BOOLEAN :
         LET resp == [status |-> st, hasBody |-> hb]
         IN  /\ response' = resp
             /\ IF StreamGuardFails(resp)
                  THEN /\ streamPc' = "failed"
                       /\ streamError' = [prefix |-> "Stream error: ", status |-> resp.status]
                  ELSE /\ streamPc' = "reading"
                       /\ UNCHANGED streamError
    /\ streamFetches' = streamFetches + 1
    /\ UNCHANGED <<wire, pos, chunks, readCalls>>
    /\ UNCHANGED <<layoutVars, shellVars, paletteVars, uploadVars>>

\* One turn of the while loop whose read returns data: the next n
\* characters of the body, decoded, split and dispatched.
askStreamRead ==
    /\ streamPc = "reading"
    /\ pos < Len(wire)
    /\ \E n \in 1..(Len(wire) - pos) :
         /\ chunks' = chunks \o ProcessChunk(SubSeq(wire, pos + 1, pos + n), pos)
         /\ pos' = pos + n
    /\ readCalls' = readCalls + 1
    /\ UNCHANGED <<wire, streamPc, response, streamFetches, streamError>>
    /\ UNCHANGED <<layoutVars, shellVars, paletteVars, uploadVars>>

\* Variant: the done signal does not leave the loop.
askStreamDoneNoBreak ==
    /\ streamPc = "reading"
    /\ pos = Len(wire)
    /\ streamPc' = "reading"
    /\ readCalls' = readCalls + 1
    /\ UNCHANGED <<wire, pos, chunks, response, streamFetches, streamError>>
    /\ UNCHANGED <<layoutVars, shellVars, paletteVars, uploadVars>>

\* The read that returns done: break, and askStream returns.
askStreamDone ==
    /\ streamPc = "reading"
    /\ pos = Len(wire)
    /\ streamPc' = "done"
    /\ readCalls' = readCalls + 1
    /\ UNCHANGED <<wire, pos, chunks, response, streamFetches, streamError>>
    /\ UNCHANGED <<layoutVars, shellVars, paletteVars, uploadVars>>

\* ------------------------------------------------------ backend replies

Undefined == <<"undefined">>

\* The member key of a parsed JSON value (canonical text), Undefined when
\* the value is no object or has no such member.
Member(v, key) ==
    IF ~(Len(v) > 2 /\ v[1] = "{") THEN Undefined
    ELSE LET m == SubSeq(v, 2, Len(v) - 1)
             i == CHOOSE j \in KeyColons(m) : IsJSON(SubSeq(m, j + 1, Len(m)))
         IN  IF SubSeq(m, 1, i - 1) = <<Q>> \o key \o <<Q>>
               THEN SubSeq(m, i + 1, Len(m))
               ELSE Undefined

\* JavaScript truthiness of a parsed value (the digits used are never 0).
Truthy(v) == v # Undefined /\ v # <<Q, Q>>

\* String(v), as new Error(v) stores its message.
ToText(v) ==
    IF v = Undefined THEN Undefined
    ELSE IF v[1] = Q THEN SubSeq(v, 2, Len(v) - 1)
    ELSE IF v[1] = "{" THEN <<"[object Object]">>
    ELSE v

DetailKey == <<"d", "e", "t", "a", "i", "l">>

\* Error bodies a backend may send: {"detail":"no"}, {"detail":""}, {} and
\* a body that is not JSON.
BodyDetail      == <<"{", Q>> \o DetailKey \o <<Q, ":", Q, "n", "o", Q, "}">>
BodyEmptyDetail == <<"{", Q>> \o DetailKey \o <<Q, ":", Q, Q, "}">>
BodyNoDetail    == <<"{", "}">>
BodyNotJSON     == <<"<", "p", ">">>

ErrorBodies == {BodyDetail, BodyEmptyDetail, BodyNoDetail, BodyNotJSON}

ErrorStatuses == {404, 500}

StatusText(st) == IF st = 404 THEN "Not Found" ELSE "Internal Server Error"

\* Successful /ask payloads.  confidence and response_time are in thousandths.
NoData == [answer |-> <<>>, sources |-> <<>>, confidence |-> 0, response_time |-> 0,
           conversation_id |-> "", timed |-> TRUE]

AskData ==
    { [answer |-> <<"A1">>, sources |-> <<>>, confidence |-> 0, response_time |-> 0,
       conversation_id |-> "", timed |-> TRUE],
      [answer |-> <<"A2">>, sources |-> <<"s1">>, confidence |-> 857, response_time |-> 1500,
       conversation_id |-> "c1", timed |-> TRUE] }

\* A 2xx JSON body of an unexpected shape: no response_time member
\* (timed is FALSE; response_time then stands for undefined).
UntimedData ==
    [answer |-> <<"A3">>, sources |-> <<>>, confidence |-> 0, response_time |-> 0,
     conversation_id |-> "c2", timed |-> FALSE]

\* What may come back for one fetch: no response at all (fetch rejects with
\* a TypeError whose message may or may not contain 'fetch'), a non-2xx
\* response with some body, a 2xx response whose body is not JSON, or a 2xx
\* response carrying data.
Replies ==
    {[kind |-> "network", status |-> 0, fetchWord |-> w, body |-> <<>>, data |-> NoData] :
        w \in BOOLEAN}
    \cup {[kind |-> "http", status |-> st, fetchWord |-> FALSE, body |-> b, data |-> NoData] :
        st \in ErrorStatuses, b \in ErrorBodies}
    \cup {[kind |-> "badjson", status |-> 200, fetchWord |-> FALSE, body |-> BodyNotJSON,
           data |-> NoData]}
    \cup {[kind |-> "ok", status |-> 200, fetchWord |-> FALSE, body |-> <<>>, data |-> d] :
        d \in AskData \cup {UntimedData}}

\* ------------------------------------------------------------ apiRequest

\* `Request failed: ${response.status} ${response.statusText}`
RequestFailed(reply) ==
    <<"Request failed: ", ToString(reply.status), " ", StatusText(reply.status)>>

\* Variant: the body of the error response is never read.
ErrorMessageFallbackOnly(reply) == RequestFailed(reply)

\* errorData.detail || errorMessage, inside try { await response.json() } catch {}
ErrorMessage(reply) ==
    IF ~IsJSON(reply.body) THEN RequestFailed(reply)
    ELSE LET detail == Member(JSONParse(reply.body), DetailKey)
         IN  IF Truthy(detail) THEN ToText(detail) ELSE RequestFailed(reply)

NetworkErrorText ==
    <<"Network error: Unable to connect to the server. Please check your connection and try again.">>

UnexpectedErrorText == <<"An unexpected error occurred. Please try again.">>

\* apiRequest: the data of a 2xx JSON response, or the DocuMentorApiError thrown.
apiRequest(reply) ==
    IF reply.kind = "http"
      THEN [ok |-> FALSE, data |-> NoData, message |-> ErrorMessage(reply),
            status |-> reply.status, statusText |-> StatusText(reply.status)]
    ELSE IF reply.kind = "ok"
      THEN [ok |-> TRUE, data |-> reply.data, message |-> <<>>, status |-> 200, statusText |-> ""]
    ELSE IF reply.kind = "network" /\ reply.fetchWord
      THEN [ok |-> FALSE, data |-> NoData, message |-> NetworkErrorText,
            status |-> 0, statusText |-> "Network Error"]
    ELSE [ok |-> FALSE, data |-> NoData, message |-> UnexpectedErrorText,
          status |-> 500, statusText |-> "Unknown Error"]

\* Variant: response.ok is not tested.
askIgnoresStatus(reply) ==
    IF reply.kind \in {"ok", "http"}
      THEN [ok |-> TRUE, data |-> reply.data, message |-> <<>>]
    ELSE [ok |-> FALSE, data |-> NoData, message |-> <<"TypeError or SyntaxError">>]

\* DocuMentorAPI.ask: the data of a 2xx JSON response, or the error rethrown
\* (`API error: ${response.status}`, or what fetch / response.json() threw).
ask(reply) ==
    IF reply.kind = "ok"
      THEN [ok |-> TRUE, data |-> reply.data, message |-> <<>>]
    ELSE IF reply.kind = "http"
      THEN [ok |-> FALSE, data |-> NoData, message |-> <<"API error: ", ToString(reply.status)>>]
    ELSE [ok |-> FALSE, data |-> NoData, message |-> <<"TypeError or SyntaxError">>]

\* ------------------------------------------------------- request bodies

\* JSON.stringify of an object literal: members whose value is undefined
\* are left out.  A body is the set of its <<key, value>> members, each
\* value written as text.
Stringify(members) == {m \in members : m[2] # Undefined}

\* An optional string argument as a member value.
Optional(v) == IF v \in {"undefined", "null"} THEN Undefined ELSE <<v>>

\* The body DocuMentorAPI.ask posts.
AskBody(question, sourceFilter) ==
    Stringify({<<"question", question>>, <<"source_filter", Optional(sourceFilter)>>,
               <<"k", <<"5">> >>, <<"temperature", <<"0.1">> >>,
               <<"max_tokens", <<"1024">> >>})

\* The body api.ask posts: JSON.stringify(request) of the AskRequest built
\* by the "lib" layout, { question, source, conversation_id }.
ApiAskBody(question, source, conversation_id) ==
    Stringify({<<"question", question>>, <<"source", Optional(source)>>,
               <<"conversation_id", Optional(conversation_id)>>})

\* ------------------------------------------------------ DocuMentorLayout

\* The longest conversation the model follows, and the last clock reading.
MaxMessages == 4

MaxClock == 1

\* What the user may have typed into a ChatInput: nothing, a blank, text,
\* text with blanks around it.
Typed == {<<>>, <<SP>>, <<"h", "i">>, <<SP, "h", "i", SP>>}

SampleQuestions == {<<"How do I create a basic LangChain chain with OpenAI?">>}

RecentSearches == {<<"How to use LangChain with OpenAI">>}

\* Sources the sidebar offers besides the initial selection.
SourceIds == {"langchain"}

NoSource == "undefined"

NoConversation == "null"

NoToast == [title |-> "", description |-> <<>>, variant |-> "default"]

Idle == [op |-> "mount", text |-> <<>>]

\* A submission is followed only while its user message, and every reply
\* and scheduled question still due, fit into MaxMessages.
HasRoom == Len(messages) + Len(pending) + 2 * Len(timers) + 2 <= MaxMessages

\* What a handler created by the current render reads from its closure.
Snap == [isLoading |-> isLoading, first |-> messages = <<>>, source |-> selectedSource,
         conversationId |-> conversationId]

\* Optional fields a Message does not carry hold <<>> or 0 and are not in `has`.
UserMessage(prefix, content) ==
    [id |-> [prefix |-> prefix, n |-> now], content |-> content, role |-> "user",
     sources |-> <<>>, confidence |-> 0, responseTime |-> 0, has |-> {}]

\* Math.round(x * 100) of a fraction given in thousandths, as a percentage
\* in thousandths.
RoundPercent(c) == ((c + 5) \div 10) * 1000

\* aiMessage of the "service" layout (lines 71-79).
AiMessage(data) ==
    [id |-> [prefix |-> "msg-", n |-> now + 1], content |-> data.answer, role |-> "assistant",
     sources |-> data.sources, confidence |-> data.confidence,
     responseTime |-> data.response_time, has |-> {"sources", "confidence", "responseTime"}]

ServiceErrorText ==
    <<"Sorry, I encountered an error while processing your request. Please make sure the backend server is running on http://localhost:8000">>

\* errorMessage of the "service" layout (lines 94-99).
ErrorMessageEntry ==
    [id |-> [prefix |-> "msg-", n |-> now + 1], content |-> ServiceErrorText,
     role |-> "assistant", sources |-> <<>>, confidence |-> 0, responseTime |-> 0, has |-> {}]

\* Variant: the time the server reports is shown.
AssistantMessageServerTime(data, startTime) ==
    [id |-> [prefix |-> "assistant-", n |-> now], content |-> data.answer, role |-> "assistant",
     sources |-> data.sources, confidence |-> RoundPercent(data.confidence),
     responseTime |-> data.response_time, has |-> {"sources", "confidence", "responseTime"}]

\* assistantMessage of the "lib" layout (lines 301-309); endTime is read
\* in the same turn as the id, startTime was captured before the call.
AssistantMessage(data, startTime) ==
    [id |-> [prefix |-> "assistant-", n |-> now], content |-> data.answer, role |-> "assistant",
     sources |-> data.sources, confidence |-> RoundPercent(data.confidence),
     responseTime |-> now - startTime, has |-> {"sources", "confidence", "responseTime"}]

\* `(cross) **Error**: ${errorMessage}\n\nPlease try again or check your connection.`
ErrorContent(errorMessage) ==
    <<"**Error**: ">> \o errorMessage \o <<NL, NL, "Please try again or check your connection.">>

\* errorResponse of the "lib" layout (lines 331-338).
ErrorResponse(errorMessage) ==
    [id |-> [prefix |-> "error-", n |-> now], content |-> ErrorContent(errorMessage),
     role |-> "assistant", sources |-> <<>>, confidence |-> 0, responseTime |-> 0,
     has |-> {"sources", "confidence"}]

\* if (!content.trim() || isLoading) return;   ("service" layout only)
SendGuard(content, snap) == Trim(content) # <<>> /\ ~snap.isLoading

\* handleSendMessage of the "service" layout up to its await: the guard,
\* the user message, the loading flag and the call of documenterAPI.ask,
\* whose fetch is issued at once.
handleSendMessage(content, snap) ==
    IF ~SendGuard(content, snap)
      THEN UNCHANGED <<messages, isLoading, pending>>
      ELSE /\ messages' = Append(messages, UserMessage("msg-", content))
           /\ isLoading' = TRUE
           /\ pending' = Append(pending,
                 [question |-> content, source |-> snap.source,
                  conversation_id |-> NoConversation, startTime |-> now, first |-> snap.first])

\* Variant: the user message is put in front of the conversation.
handleSendMessageApiPrepends(content, snap) ==
    /\ messages' = <<UserMessage("user-", content)>> \o messages
    /\ isLoading' = TRUE
    /\ pending' = Append(pending,
          [question |-> content,
           source |-> IF snap.source # "all" THEN snap.source ELSE NoSource,
           conversation_id |-> snap.conversationId, startTime |-> now, first |-> snap.first])

\* handleSendMessage of the "lib" layout up to its await (lines 271-293).
handleSendMessageApi(content, snap) ==
    /\ messages' = Append(messages, UserMessage("user-", content))
    /\ isLoading' = TRUE
    /\ pending' = Append(pending,
          [question |-> content,
           source |-> IF snap.source # "all" THEN snap.source ELSE NoSource,
           conversation_id |-> snap.conversationId, startTime |-> now, first |-> snap.first])

\* The onSendMessage prop the mounted layout hands to its children.
onSendMessage(content, snap) ==
    IF layout = "service" THEN handleSendMessage(content, snap)
                          ELSE handleSendMessageApi(content, snap)

\* Variant: only the disabled flag stops a submission.
ChatInputSubmitsBlank(value, disabled) == ~disabled

\* ChatInput.handleSubmit: if (!value.trim() || disabled) return; onSubmit(value.trim())
ChatInputSubmits(value, disabled) == ~(Trim(value) = <<>> \/ disabled)

\* ChatInterface.handleSubmit: if (!message.trim() || isLoading) return;
ChatInterfaceSubmits(message, loading) == ~(Trim(message) = <<>> \/ loading)

Op(name, text) == [op |-> name, text |-> text]

\* The send button or Ctrl+Enter of the ChatInput inside ChatInterface
\* (rendered while there are messages, disabled while loading).
chatInterfaceSubmit ==
    /\ messages # <<>>
    /\ HasRoom
    /\ \E value \in Typed :
         /\ IF ChatInputSubmits(value, isLoading) /\ ChatInterfaceSubmits(Trim(value), isLoading)
              THEN onSendMessage(Trim(value), Snap)
              ELSE UNCHANGED <<messages, isLoading, pending>>
         /\ lastOp' = Op("ChatInterface.handleSubmit", value)
    /\ UNCHANGED <<layout, selectedSource, conversationId, toast, now, timers>>
    /\ UNCHANGED <<streamVars, shellVars, paletteVars, uploadVars>>

\* The ChatInput of the WelcomeScreen (rendered while there are no
\* messages, never disabled), through WelcomeScreen.handleSubmit.
welcomeSubmit ==
    /\ messages = <<>>
    /\ HasRoom
    /\ \E value \in Typed :
         /\ IF ChatInputSubmits(value, FALSE)
              THEN onSendMessage(Trim(value), Snap)
              ELSE UNCHANGED <<messages, isLoading, pending>>
         /\ lastOp' = Op("WelcomeScreen.handleSubmit", value)
    /\ UNCHANGED <<layout, selectedSource, conversationId, toast, now, timers>>
    /\ UNCHANGED <<streamVars, shellVars, paletteVars, uploadVars>>

\* WelcomeScreen.handleSampleQuestion: setTimeout(() => onSendMessage(question), 100)
\* keeps the onSendMessage of the render in which the card was clicked.
handleSampleQuestion ==
    /\ messages = <<>>
    /\ HasRoom
    /\ \E question \in SampleQuestions :
         /\ timers' = Append(timers, [question |-> question, snap |-> Snap])
         /\ lastOp' = Op("WelcomeScreen.handleSampleQuestion", question)
    /\ UNCHANGED <<layout, messages, isLoading, selectedSource, conversationId, pending,
                   toast, now>>
    /\ UNCHANGED <<streamVars, shellVars, paletteVars, uploadVars>>

Without(seq, i) == SubSeq(seq, 1, i - 1) \o SubSeq(seq, i + 1, Len(seq))

\* The timer of a sample question fires, whatever is rendered by then.
sampleTimerFires ==
    /\ \E i \in 1..Len(timers) :
         /\ onSendMessage(timers[i].question, timers[i].snap)
         /\ timers' = Without(timers, i)
         /\ lastOp' = Op("setTimeout", timers[i].question)
    /\ UNCHANGED <<layout, selectedSource, conversationId, toast, now>>
    /\ UNCHANGED <<streamVars, shellVars, paletteVars, uploadVars>>

\* handleCommandPaletteSearch, from Enter or a click on a recent search of
\* the command palette (the "service" layout passes the palette no isOpen
\* and no onSearch: it never opens there).
handleCommandPaletteSearch ==
    /\ layout = "lib"
    /\ HasRoom
    /\ \E search \in RecentSearches :
         /\ handleSendMessageApi(search, Snap)
         /\ lastOp' = Op("handleCommandPaletteSearch", search)
    /\ UNCHANGED <<layout, selectedSource, conversationId, toast, now, timers>>
    /\ UNCHANGED <<streamVars, shellVars, paletteVars, uploadVars>>

\* Variant: the first message survives.
ClearedMessagesButFirst == IF messages = <<>> THEN <<>> ELSE <<messages[1]>>

\* handleClearChat ("service" layout).
ClearedMessages == <<>>

handleClearChat ==
    /\ layout = "service"
    /\ messages' = ClearedMessages
    /\ toast' = [title |-> "Chat cleared", description |-> <<"All messages have been removed">>,
                 variant |-> "default"]
    /\ lastOp' = Op("handleClearChat", <<>>)
    /\ UNCHANGED <<layout, isLoading, selectedSource, conversationId, pending,
                   now, timers>>
    /\ UNCHANGED <<streamVars, shellVars, paletteVars, uploadVars>>

\* handleSourceChange ("service") / setSelectedSource ("lib").
handleSourceChange ==
    /\ \E source \in SourceIds \cup {IF layout = "service" THEN NoSource ELSE "all"} :
         /\ selectedSource' = source
         /\ toast' = IF layout = "lib" THEN toast
                     ELSE IF source # NoSource
                       THEN [title |-> "Source filter applied",
                             description |-> <<"Showing results from ", source>>,
                             variant |-> "default"]
                       ELSE [title |-> "Source filter removed",
                             description |-> <<"Showing results from all sources">>,
                             variant |-> "default"]
         /\ lastOp' = Op("handleSourceChange", <<source>>)
    /\ UNCHANGED <<layout, messages, isLoading, conversationId, pending, now, timers>>
    /\ UNCHANGED <<streamVars, shellVars, paletteVars, uploadVars>>

\* Time passes.
tick ==
    /\ now < MaxClock
    /\ now' = now + 1
    /\ UNCHANGED <<layout, messages, isLoading, selectedSource, conversationId, pending,
                   toast, timers, lastOp>>
    /\ UNCHANGED <<streamVars, shellVars, paletteVars, uploadVars>>

Settled(call) == Op("handleSendMessage.settled", call.question)

ConnectedToast(data) ==
    [title |-> "Connected to DocuMentor!",
     description |-> <<"Response received in ", ToString((data.response_time + 5) \div 10), "s">>,
     variant |-> "default"]

ConnectionErrorToast(description) ==
    [title |-> "Connection Error", description |-> description, variant |-> "destructive"]

WelcomeToast ==
    [title |-> "Welcome to DocuMentor!",
     description |-> <<"Your AI documentation assistant is ready to help.">>,
     variant |-> "default"]

\* Variant: the finally block leaves the loading flag as it is.
LoadingLeftSet == isLoading

\* finally { setIsLoading(false) }
LoadingAfterSettle == FALSE

\* The rest of handleSendMessage of the "service" layout, once the awaited
\* documenterAPI.ask has settled: try (lines 70-89), catch (90-108), finally.
\* `messages.length === 0` is the closure's, captured as call.first.
askSettlesWith(i, reply) ==
    /\ layout = "service"
    /\ i \in 1..Len(pending)
    /\   LET call == pending[i]
             r    == ask(reply)
             \* response.response_time.toFixed(2) on undefined: a TypeError
             \* thrown inside the try, after setMessages(aiMessage)
             toastThrows == r.ok /\ call.first /\ ~r.data.timed
         IN  /\ messages' =
                   IF toastThrows THEN messages \o <<AiMessage(r.data), ErrorMessageEntry>>
                   ELSE Append(messages, IF r.ok THEN AiMessage(r.data) ELSE ErrorMessageEntry)
             /\ toast' = IF ~r.ok \/ toastThrows
                           THEN ConnectionErrorToast(
                                  <<"Failed to connect to the backend. Please check if the API server is running.">>)
                         ELSE IF call.first THEN ConnectedToast(r.data)
                         ELSE toast
             /\ isLoading' = LoadingAfterSettle
             /\ pending' = Without(pending, i)
             /\ lastOp' = Settled(call)
    /\ UNCHANGED <<layout, selectedSource, conversationId, now, timers>>
    /\ UNCHANGED <<streamVars, shellVars, paletteVars, uploadVars>>

askSettles == \E i \in 1..Len(pending), reply \in Replies : askSettlesWith(i, reply)

\* The rest of handleSendMessage of the "lib" layout, once the awaited
\* api.ask has settled: try (lines 294-319), catch (321-347), finally.
\* apiRequest throws only DocuMentorApiError, so isApiError(error) holds
\* and errorMessage is error.message.
apiAskSettlesWith(i, reply) ==
    /\ layout = "lib"
    /\ i \in 1..Len(pending)
    /\   LET call == pending[i]
             r    == apiRequest(reply)
         IN  /\ conversationId' =
                   IF r.ok /\ call.conversation_id = NoConversation
                           /\ r.data.conversation_id # ""
                     THEN r.data.conversation_id
                     ELSE conversationId
             /\ messages' = Append(messages,
                   IF r.ok THEN AssistantMessage(r.data, call.startTime)
                           ELSE ErrorResponse(r.message))
             /\ toast' = IF ~r.ok THEN ConnectionErrorToast(r.message)
                         ELSE IF call.first THEN WelcomeToast
                         ELSE toast
             /\ isLoading' = LoadingAfterSettle
             /\ pending' = Without(pending, i)
             /\ lastOp' = Settled(call)
    /\ UNCHANGED <<layout, selectedSource, now, timers>>
    /\ UNCHANGED <<streamVars, shellVars, paletteVars, uploadVars>>

apiAskSettles == \E i \in 1..Len(pending), reply \in Replies : apiAskSettlesWith(i, reply)

\* ------------------------------------------------------ document upload

MaxUploads == 2

Files == {"guide.pdf", "notes.md"}

NoUpload == [status |-> "", chunks_created |-> 0]

\* {status, message, chunks_created?} of POST /upload
UploadData == {[status |-> "success", chunks_created |-> n] : n \in {0, 3}}

\* What fetch(`${API_BASE_URL}/upload`) can give: a rejection, a non-2xx
\* response, a 2xx response whose body is not JSON, a 2xx response with data.
UploadReplies ==
    {[kind |-> "network", status |-> 0, data |-> NoUpload]}
    \cup {[kind |-> "http", status |-> st, data |-> NoUpload] : st \in ErrorStatuses}
    \cup {[kind |-> "badjson", status |-> 200, data |-> NoUpload]}
    \cup {[kind |-> "ok", status |-> 200, data |-> d] : d \in UploadData}

\* DocuMentorAPI.uploadDocument: the data of a 2xx JSON response, or the
\* error thrown (`Upload error: ${response.status}`, or what fetch /
\* response.json() threw).
uploadDocument(reply) ==
    IF reply.kind = "ok"
      THEN [ok |-> TRUE, data |-> reply.data, message |-> <<>>]
    ELSE IF reply.kind = "http"
      THEN [ok |-> FALSE, data |-> NoUpload,
            message |-> <<"Upload error: ", ToString(reply.status)>>]
    ELSE [ok |-> FALSE, data |-> NoUpload, message |-> <<"TypeError or SyntaxError">>]

NoOutcome == [kind |-> "none", file |-> "", data |-> NoUpload, message |-> <<>>]

UploadedToast(file) ==
    [title |-> "Document uploaded",
     description |-> <<file, " has been processed successfully">>,
     variant |-> "default"]

\* Variant: the failure is notified without variant "destructive".
UploadFailedToastPlain ==
    [title |-> "Upload failed",
     description |-> <<"Failed to upload document. Please try again.">>,
     variant |-> "default"]

UploadFailedToast ==
    [title |-> "Upload failed",
     description |-> <<"Failed to upload document. Please try again.">>,
     variant |-> "destructive"]

\* handleFileUpload ("service" layout), up to the await: the call is made.
handleFileUpload ==
    /\ layout = "service"
    /\ Len(uploads) < MaxUploads
    /\ \E file \in Files :
         /\ uploads' = Append(uploads, file)
         /\ lastOp' = Op("handleFileUpload", <<file>>)
    /\ UNCHANGED uploadOutcome
    /\ UNCHANGED <<layout, messages, isLoading, selectedSource, conversationId, pending,
                   toast, now, timers>>
    /\ UNCHANGED <<streamVars, shellVars, paletteVars>>

\* The rest of handleFileUpload once the awaited uploadDocument has
\* settled: toast and return result, or toast and throw error.
uploadSettlesWith(i, reply) ==
    /\ layout = "service"
    /\ i \in 1..Len(uploads)
    /\ LET file == uploads[i]
           r    == uploadDocument(reply)
       IN  /\ toast' = IF r.ok THEN UploadedToast(file) ELSE UploadFailedToast
           /\ uploadOutcome' =
                 IF r.ok THEN [kind |-> "returned", file |-> file, data |-> r.data,
                               message |-> <<>>]
                 ELSE [kind |-> "thrown", file |-> file, data |-> NoUpload,
                       message |-> r.message]
           /\ lastOp' = Op("handleFileUpload.settled", <<file>>)
    /\ uploads' = Without(uploads, i)
    /\ UNCHANGED <<layout, messages, isLoading, selectedSource, conversationId, pending,
                   now, timers>>
    /\ UNCHANGED <<streamVars, shellVars, paletteVars>>

uploadSettles ==
    \E i \in 1..Len(uploads), reply \in UploadReplies : uploadSettlesWith(i, reply)

\* ------------------------------------------------------ theme and sidebar

NoTheme == "null"

\* Variant: the stored theme is not consulted.
ShouldUseDarkIgnoresSaved(saved, prefers) == prefers

\* shouldUseDark = savedTheme === 'dark' || (!savedTheme && prefersDark)
ShouldUseDark(saved, prefers) == saved = "dark" \/ (saved = NoTheme /\ prefers)

\* isDarkMode once the layout is mounted: useState(true) in the "service"
\* layout, the outcome of the mount effect in the "lib" layout.
MountedDark ==
    IF layout = "service" THEN TRUE ELSE ShouldUseDark(savedTheme, prefersDark)

\* Variant: the two theme names are stored the other way round.
StoredThemeInverted(newDarkMode) == IF newDarkMode THEN "light" ELSE "dark"

\* newDarkMode ? 'dark' : 'light'
StoredTheme(newDarkMode) == IF newDarkMode THEN "dark" ELSE "light"

\* toggleDarkMode ("lib" layout): state, localStorage and the class of the
\* document root are written together.
toggleDarkMode ==
    /\ layout = "lib"
    /\ LET newDarkMode == ~isDarkMode
       IN  /\ isDarkMode' = newDarkMode
           /\ savedTheme' = StoredTheme(newDarkMode)
           /\ rootDark' = newDarkMode
    /\ themeBefore' = <<isDarkMode, rootDark, savedTheme>>
    /\ lastOp' = Op("toggleDarkMode", <<>>)
    /\ UNCHANGED <<prefersDark, sidebarCollapsed>>
    /\ UNCHANGED <<layout, messages, isLoading, selectedSource, conversationId, pending,
                   toast, now, timers>>
    /\ UNCHANGED <<streamVars, paletteVars, uploadVars>>

\* onToggleTheme ("service" layout): setIsDarkMode(!isDarkMode), nothing
\* stored; the effect on [isDarkMode] adds or removes the class.
onToggleTheme ==
    /\ layout = "service"
    /\ isDarkMode' = ~isDarkMode
    /\ rootDark' = isDarkMode'
    /\ lastOp' = Op("onToggleTheme", <<>>)
    /\ UNCHANGED <<savedTheme, prefersDark, sidebarCollapsed, themeBefore>>
    /\ UNCHANGED <<layout, messages, isLoading, selectedSource, conversationId, pending,
                   toast, now, timers>>
    /\ UNCHANGED <<streamVars, paletteVars, uploadVars>>

\* onToggleCollapse / onToggleSidebar.
toggleSidebar ==
    /\ sidebarCollapsed' = ~sidebarCollapsed
    /\ lastOp' = Op("onToggleSidebar", <<>>)
    /\ UNCHANGED <<isDarkMode, savedTheme, prefersDark, rootDark, themeBefore>>
    /\ UNCHANGED <<layout, messages, isLoading, selectedSource, conversationId, pending,
                   toast, now, timers>>
    /\ UNCHANGED <<streamVars, paletteVars, uploadVars>>

\* The page is reloaded: every useState starts again, the calls and timers
\* of the old page are gone, localStorage stays, and the mount effect runs.
reload ==
    /\ messages' = <<>>
    /\ isLoading' = FALSE
    /\ selectedSource' = IF layout = "service" THEN NoSource ELSE "all"
    /\ conversationId' = NoConversation
    /\ pending' = <<>>
    /\ toast' = NoToast
    /\ timers' = <<>>
    /\ sidebarCollapsed' = FALSE
    /\ isDarkMode' = MountedDark
    /\ rootDark' = MountedDark
    /\ showCommandPalette' = FALSE
    /\ query' = <<>>
    /\ selectedIndex' = 0
    /\ lastOp' = Op("reload", <<>>)
    /\ uploads' = <<>>
    /\ uploadOutcome' = NoOutcome
    /\ UNCHANGED <<layout, now, savedTheme, prefersDark, themeBefore>>
    /\ UNCHANGED streamVars

\* ------------------------------------------------------- CommandPalette

\* String.prototype.toLowerCase and String.prototype.includes, on text
\* written one character per element.
UpperCase == <<"A", "B", "C", "D", "E", "F", "G", "H", "I", "J", "K", "L", "M", "N", "O", "P", "Q", "R", "S", "T", "U", "V", "W", "X", "Y", "Z">>

LowerCase == <<"a", "b", "c", "d", "e", "f", "g", "h", "i", "j", "k", "l", "m", "n", "o", "p", "q", "r", "s", "t", "u", "v", "w", "x", "y", "z">>

ToLower(c) ==
    IF \E i \in 1..Len(UpperCase) : UpperCase[i] = c
      THEN LowerCase[CHOOSE i \in 1..Len(UpperCase) : UpperCase[i] = c]
      ELSE c

ToLowerCase(t) == [k \in 1..Len(t) |-> ToLower(t[k])]

Includes(t, part) ==
    \E i \in 0..(Len(t) - Len(part)) : SubSeq(t, i + 1, i + Len(part)) = part

\* quickActions: each with its title (also letter by letter) and description.
quickActions ==
    <<[id |-> "new-chat", title |-> "New Chat", letters |-> <<"N", "e", "w", " ", "C", "h", "a", "t">>,
       about |-> <<"S", "t", "a", "r", "t", " ", "a", " ", "f", "r", "e", "s", "h", " ", "c", "o", "n", "v", "e", "r", "s", "a", "t", "i", "o", "n">>, isSearch |-> FALSE],
      [id |-> "clear-history", title |-> "Clear History", letters |-> <<"C", "l", "e", "a", "r", " ", "H", "i", "s", "t", "o", "r", "y">>,
       about |-> <<"C", "l", "e", "a", "r", " ", "a", "l", "l", " ", "c", "o", "n", "v", "e", "r", "s", "a", "t", "i", "o", "n", " ", "h", "i", "s", "t", "o", "r", "y">>, isSearch |-> FALSE],
      [id |-> "export-chat", title |-> "Export Chat", letters |-> <<"E", "x", "p", "o", "r", "t", " ", "C", "h", "a", "t">>,
       about |-> <<"E", "x", "p", "o", "r", "t", " ", "c", "u", "r", "r", "e", "n", "t", " ", "c", "o", "n", "v", "e", "r", "s", "a", "t", "i", "o", "n">>, isSearch |-> FALSE],
      [id |-> "settings", title |-> "Settings", letters |-> <<"S", "e", "t", "t", "i", "n", "g", "s">>,
       about |-> <<"O", "p", "e", "n", " ", "a", "p", "p", "l", "i", "c", "a", "t", "i", "o", "n", " ", "s", "e", "t", "t", "i", "n", "g", "s">>, isSearch |-> FALSE],
      [id |-> "docs", title |-> "Documentation", letters |-> <<"D", "o", "c", "u", "m", "e", "n", "t", "a", "t", "i", "o", "n">>,
       about |-> <<"V", "i", "e", "w", " ", "a", "p", "p", "l", "i", "c", "a", "t", "i", "o", "n", " ", "h", "e", "l", "p">>, isSearch |-> FALSE]>>

\* recentSearches as the items allItems makes of them; for these `about`
\* is the fixed description, which the filter does not look at.
recentSearches ==
    <<[id |-> "search-How to use LangChain with OpenAI", title |-> "How to use LangChain with OpenAI", letters |-> <<"H", "o", "w", " ", "t", "o", " ", "u", "s", "e", " ", "L", "a", "n", "g", "C", "h", "a", "i", "n", " ", "w", "i", "t", "h", " ", "O", "p", "e", "n", "A", "I">>,
       about |-> <<"R", "e", "c", "e", "n", "t", " ", "s", "e", "a", "r", "c", "h">>, isSearch |-> TRUE],
      [id |-> "search-FastAPI authentication setup", title |-> "FastAPI authentication setup", letters |-> <<"F", "a", "s", "t", "A", "P", "I", " ", "a", "u", "t", "h", "e", "n", "t", "i", "c", "a", "t", "i", "o", "n", " ", "s", "e", "t", "u", "p">>,
       about |-> <<"R", "e", "c", "e", "n", "t", " ", "s", "e", "a", "r", "c", "h">>, isSearch |-> TRUE],
      [id |-> "search-React hooks best practices", title |-> "React hooks best practices", letters |-> <<"R", "e", "a", "c", "t", " ", "h", "o", "o", "k", "s", " ", "b", "e", "s", "t", " ", "p", "r", "a", "c", "t", "i", "c", "e", "s">>,
       about |-> <<"R", "e", "c", "e", "n", "t", " ", "s", "e", "a", "r", "c", "h">>, isSearch |-> TRUE],
      [id |-> "search-Django ORM relationships", title |-> "Django ORM relationships", letters |-> <<"D", "j", "a", "n", "g", "o", " ", "O", "R", "M", " ", "r", "e", "l", "a", "t", "i", "o", "n", "s", "h", "i", "p", "s">>,
       about |-> <<"R", "e", "c", "e", "n", "t", " ", "s", "e", "a", "r", "c", "h">>, isSearch |-> TRUE],
      [id |-> "search-Node.js async patterns", title |-> "Node.js async patterns", letters |-> <<"N", "o", "d", "e", ".", "j", "s", " ", "a", "s", "y", "n", "c", " ", "p", "a", "t", "t", "e", "r", "n", "s">>,
       about |-> <<"R", "e", "c", "e", "n", "t", " ", "s", "e", "a", "r", "c", "h">>, isSearch |-> TRUE]>>

\* What the user may have typed into the palette's input: nothing, 'lang',
\* 'Chat', 'zz'.
Queries == {<<>>, <<"l", "a", "n", "g">>, <<"C", "h", "a", "t">>, <<"z", "z">>}

filteredActions(q) ==
    SelectSeq(quickActions,
              LAMBDA action : \/ Includes(ToLowerCase(action.letters), ToLowerCase(q))
                              \/ Includes(ToLowerCase(action.about), ToLowerCase(q)))

filteredSearches(q) ==
    SelectSeq(recentSearches,
              LAMBDA search : Includes(ToLowerCase(search.letters), ToLowerCase(q)))

allItems(q) == filteredActions(q) \o filteredSearches(q)

Min(a, b) == IF a < b THEN a ELSE b

Max(a, b) == IF a > b THEN a ELSE b

\* onClose of the "lib" layout, and the effect on [isOpen] that follows
\* when the prop changes: setSelectedIndex(0).
onClose ==
    /\ showCommandPalette' = FALSE
    /\ selectedIndex' = IF showCommandPalette THEN 0 ELSE selectedIndex

\* Ctrl/Cmd+K, or the sidebar's button: setShowCommandPalette(true).
openPalette ==
    /\ showCommandPalette' = TRUE
    /\ selectedIndex' = IF showCommandPalette THEN selectedIndex ELSE 0
    /\ lastOp' = Op("setShowCommandPalette", <<>>)
    /\ UNCHANGED query
    /\ UNCHANGED <<layout, messages, isLoading, selectedSource, conversationId, pending,
                   toast, now, timers>>
    /\ UNCHANGED <<streamVars, shellVars, uploadVars>>

\* onChange of the input (rendered while the palette is open): setQuery.
setQuery ==
    /\ showCommandPalette
    /\ \E q \in Queries :
         /\ query' = q
         /\ lastOp' = Op("setQuery", q)
    /\ UNCHANGED <<showCommandPalette, selectedIndex>>
    /\ UNCHANGED <<layout, messages, isLoading, selectedSource, conversationId, pending,
                   toast, now, timers>>
    /\ UNCHANGED <<streamVars, shellVars, uploadVars>>

\* keydown ArrowDown / ArrowUp: nothing while the palette is closed.
keyArrow ==
    /\ \E key \in {"ArrowDown", "ArrowUp"} :
         /\ selectedIndex' =
               IF ~showCommandPalette THEN selectedIndex
               ELSE IF key = "ArrowDown"
                 THEN Min(selectedIndex + 1, Len(allItems(query)) - 1)
                 ELSE Max(selectedIndex - 1, 0)
         /\ lastOp' = Op("keydown", <<key>>)
    /\ UNCHANGED <<showCommandPalette, query>>
    /\ UNCHANGED <<layout, messages, isLoading, selectedSource, conversationId, pending,
                   toast, now, timers>>
    /\ UNCHANGED <<streamVars, shellVars, uploadVars>>

\* allItems[selectedIndex] exists.
HasSelectedItem == selectedIndex \in 0..(Len(allItems(query)) - 1)

\* Variant: every item is taken for a recent search.
EnterCallsSearchAlways(item) == TRUE

\* 'isSearch' in selectedItem && selectedItem.isSearch
EnterCallsSearch(item) == item.isSearch

\* keydown Enter: onSearch(selectedItem.title) for a recent search, then
\* onClose(); nothing without a selected item or while closed.
keyEnter ==
    /\ HasRoom
    /\ IF showCommandPalette /\ HasSelectedItem
         THEN LET selectedItem == allItems(query)[selectedIndex + 1]
              IN  /\ IF EnterCallsSearch(selectedItem)
                       THEN handleSendMessageApi(<<selectedItem.title>>, Snap)
                       ELSE UNCHANGED <<messages, isLoading, pending>>
                  /\ onClose
         ELSE UNCHANGED <<messages, isLoading, pending, showCommandPalette, selectedIndex>>
    /\ lastOp' = Op("keydown", <<"Enter">>)
    /\ UNCHANGED query
    /\ UNCHANGED <<layout, selectedSource, conversationId, toast, now, timers>>
    /\ UNCHANGED <<streamVars, shellVars, uploadVars>>

\* keydown Escape: onClose(), nothing while closed.
keyEscape ==
    /\ IF showCommandPalette THEN onClose
                             ELSE UNCHANGED <<showCommandPalette, selectedIndex>>
    /\ lastOp' = Op("keydown", <<"Escape">>)
    /\ UNCHANGED query
    /\ UNCHANGED <<layout, messages, isLoading, selectedSource, conversationId, pending,
                   toast, now, timers>>
    /\ UNCHANGED <<streamVars, shellVars, uploadVars>>

\* A click on a recent search of the open palette: onSearch(search); onClose().
clickRecentSearch ==
    /\ showCommandPalette
    /\ HasRoom
    /\ \E n \in 1..Len(filteredSearches(query)) :
         /\ handleSendMessageApi(<<filteredSearches(query)[n].title>>, Snap)
         /\ lastOp' = Op("onClick", <<filteredSearches(query)[n].title>>)
    /\ onClose
    /\ UNCHANGED query
    /\ UNCHANGED <<layout, selectedSource, conversationId, toast, now, timers>>
    /\ UNCHANGED <<streamVars, shellVars, uploadVars>>

\* ---------------------------------------------------------- specifications

\* The palette before it was ever opened.
PaletteIdle ==
    /\ showCommandPalette = FALSE
    /\ query = <<>>
    /\ selectedIndex = 0

\* No document was given yet.
UploadIdle ==
    /\ uploads = <<>>
    /\ uploadOutcome = NoOutcome

\* First visit: nothing stored, the sidebar open.
ShellIdle ==
    /\ savedTheme = NoTheme
    /\ sidebarCollapsed = FALSE
    /\ isDarkMode = MountedDark
    /\ rootDark = MountedDark
    /\ themeBefore = <<isDarkMode, rootDark, savedTheme>>


LayoutIdle ==
    /\ messages = <<>>
    /\ isLoading = FALSE
    /\ selectedSource = IF layout = "service" THEN NoSource ELSE "all"
    /\ conversationId = NoConversation
    /\ pending = <<>>
    /\ toast = NoToast
    /\ now = 0
    /\ timers = <<>>
    /\ lastOp = Idle

\* askStream alone, on every body of Bodies.
InitStream ==
    /\ wire \in Bodies
    /\ StreamIdle
    /\ layout = "service"
    /\ LayoutIdle
    /\ prefersDark = FALSE
    /\ ShellIdle
    /\ PaletteIdle
    /\ UploadIdle

NextStream == askStreamFetch \/ askStreamRead \/ askStreamDone

SpecStream == InitStream /\ [][NextStream]_vars

\* askStream alone, on every body of FieldBodies.
InitFields ==
    /\ wire \in FieldBodies
    /\ StreamIdle
    /\ layout = "service"
    /\ LayoutIdle
    /\ prefersDark = FALSE
    /\ ShellIdle
    /\ PaletteIdle
    /\ UploadIdle

SpecFields == InitFields /\ [][NextStream]_vars

\* A mounted DocuMentorLayout, of either implementation, and a user who
\* leaves the source filter as it is.
InitLayout ==
    /\ wire = <<>>
    /\ StreamIdle
    /\ layout \in {"service", "lib"}
    /\ LayoutIdle
    /\ prefersDark = FALSE
    /\ ShellIdle
    /\ PaletteIdle
    /\ UploadIdle

NextLayout ==
    \/ chatInterfaceSubmit
    \/ welcomeSubmit
    \/ handleSampleQuestion
    \/ sampleTimerFires
    \/ handleCommandPaletteSearch
    \/ handleClearChat
    \/ askSettles
    \/ apiAskSettles
    \/ tick

SpecLayout == InitLayout /\ [][NextLayout]_vars

\* The handlers of NextLayout at one reading of the clock: Date.now() is
\* read for ids and response times only, and no handler waits for it.
NextLayoutNow ==
    \/ chatInterfaceSubmit
    \/ welcomeSubmit
    \/ handleSampleQuestion
    \/ sampleTimerFires
    \/ handleCommandPaletteSearch
    \/ handleClearChat
    \/ askSettles
    \/ apiAskSettles

\* These, with every backend call settling at last (fetch resolves or
\* rejects) and every timer set by setTimeout firing.
SpecLayoutFair ==
    /\ InitLayout
    /\ [][NextLayoutNow]_vars
    /\ WF_vars(askSettles)
    /\ WF_vars(apiAskSettles)
    /\ WF_vars(sampleTimerFires)

\* A mounted layout whose user sends from the welcome screen and the
\* palette, filters, toggles theme and sidebar, and reloads the page; the operating system may prefer either scheme.
InitTheme ==
    /\ wire = <<>>
    /\ StreamIdle
    /\ layout \in {"service", "lib"}
    /\ LayoutIdle
    /\ prefersDark \in BOOLEAN
    /\ ShellIdle
    /\ PaletteIdle
    /\ UploadIdle

NextTheme ==
    \/ toggleDarkMode
    \/ onToggleTheme
    \/ toggleSidebar
    \/ reload
    \/ welcomeSubmit
    \/ handleCommandPaletteSearch
    \/ handleSourceChange
    \/ askSettles
    \/ apiAskSettles

SpecTheme == InitTheme /\ [][NextTheme]_vars

\* The "lib" layout (the one whose palette opens) with a user at the
\* command palette, up to the moment the first reply arrives.
InitPalette ==
    /\ wire = <<>>
    /\ StreamIdle
    /\ layout = "lib"
    /\ LayoutIdle
    /\ prefersDark = FALSE
    /\ ShellIdle
    /\ PaletteIdle
    /\ UploadIdle

NextPalette ==
    \/ openPalette
    \/ setQuery
    \/ keyArrow
    \/ keyEnter
    \/ keyEscape
    \/ clickRecentSearch

SpecPalette == InitPalette /\ [][NextPalette]_vars

\* The "service" layout (the one with handleFileUpload) with a user who
\* uploads documents while asking and filtering.
InitUpload ==
    /\ wire = <<>>
    /\ StreamIdle
    /\ layout = "service"
    /\ LayoutIdle
    /\ prefersDark = FALSE
    /\ ShellIdle
    /\ PaletteIdle
    /\ UploadIdle

NextUpload ==
    \/ handleFileUpload
    \/ uploadSettles
    \/ welcomeSubmit
    \/ askSettles
    \/ handleSourceChange

SpecUpload == InitUpload /\ [][NextUpload]_vars

\* The same, with a user who also changes the source filter.
NextSources == NextLayout \/ handleSourceChange

SpecSources == InitLayout /\ [][NextSources]_vars

\* ------------------------------------------------- claims: the stream decoder

\* The values onChunk was called with, in order.
Values(calls) == [k \in 1..Len(calls) |-> calls[k].data]

\* Index of the last newline of s, 0 when there is none.
LastNL(s) == IF \E i \in 1..Len(s) : s[i] = NL
               THEN CHOOSE i \in 1..Len(s) : s[i] = NL /\ \A j \in (i + 1)..Len(s) : s[j] # NL
               ELSE 0

\* The lines of the body that a newline terminates.
TerminatedLines(s) == SubSeq(Split(s), 1, Len(Split(s)) - 1)

\* A 'data: ' line whose payload is not JSON.
IsMalformed(piece) ==
    StartsWith(piece.text, DataPrefix) /\ ~IsJSON(Slice(piece.text, PrefixLen))

\* C1: for the body 'data: {"a":1}\n' 'data: {"b":2}\n', however it is cut
\* into two or more reads, onChunk has been called exactly twice when
\* askStream returns, with {a:1} and then {b:2}.
C1_TwoEventsHoweverCut ==
    (streamPc = "done" /\ wire = BodyAB /\ readCalls >= 3)
        => Values(chunks) = <<JSONParse(Slice(LineA, PrefixLen)), JSONParse(Slice(LineB, PrefixLen))>>

\* C2: the onChunk invocations are made in the order in which their lines
\* stand in the byte stream: each call comes from a later place than the
\* call before it.
C2_CallbacksInStreamOrder ==
    \A i, j \in 1..Len(chunks) : i < j => chunks[i].at < chunks[j].at

C2_Witness == streamPc = "done" /\ Len(chunks) >= 2 /\ readCalls >= 3

\* C3: a 'data: ' line whose payload is not JSON causes no onChunk call for
\* that line, askStream does not reject, and every well-formed event that
\* follows it has been delivered when askStream returns.
C3_MalformedLineOnlySkipped ==
    LET lines == TerminatedLines(wire)
    IN  /\ (streamPc = "failed" => StreamGuardFails(response))
        /\ streamPc = "done" =>
             \A k \in 1..Len(lines) :
                IsMalformed(lines[k]) =>
                  /\ \A c \in 1..Len(chunks) :
                        ~(lines[k].at <= chunks[c].at
                            /\ chunks[c].at <= lines[k].at + Len(lines[k].text))
                  /\ \A j \in (k + 1)..Len(lines) :
                        IsEvent(lines[j]) =>
                            \E c \in 1..Len(chunks) : chunks[c] = ToCall(lines[j], 0)

\* C4: a response with a non-success status or without a body makes
\* askStream throw 'Stream error: <status>' at once: no onChunk call, no
\* read, and exactly the one fetch.
C4_BadResponseFailsAtOnce ==
    (streamFetches > 0 /\ (~Ok(response) \/ ~response.hasBody))
        => /\ streamPc = "failed"
           /\ streamError = [prefix |-> "Stream error: ", status |-> response.status]
           /\ chunks = <<>>
           /\ readCalls = 0
           /\ pos = 0
           /\ streamFetches = 1

C4_Witness == streamPc = "failed" /\ Ok(response) /\ ~response.hasBody

\* C5: text that follows the last newline of the stream never causes an
\* onChunk invocation.
C5_NoPartialFinalFrame ==
    \A c \in 1..Len(chunks) : chunks[c].at <= LastNL(wire)

\* ------------------------------------------------------ claims: the layout

\* The reply the last settled call got is not part of the state: the claims
\* about one settlement are action formulas over the settling step.
HttpReplies == {reply \in Replies : reply.kind = "http"}

OkReplies == {reply \in Replies : reply.kind = "ok"}

\* The text between the two fixed parts of the error message content.
Surfaced(message) == SubSeq(message.content, 2, Len(message.content) - 3)

Last(seq) == seq[Len(seq)]

\* The fallback text, spelled out: status code and status text.
Fallback(reply) ==
    <<"Request failed: ", ToString(reply.status), " ",
      IF reply.status = 404 THEN "Not Found" ELSE "Internal Server Error">>

\* The body is valid JSON and has a `detail` member.
CarriesDetail(body) == IsJSON(body) /\ Member(JSONParse(body), DetailKey) # Undefined

\* C6 as stated: for a non-2xx response the message surfaced (toast
\* description and error message content) is the body's `detail` whenever
\* the body is valid JSON and carries one, and the fallback otherwise.
C6_DetailWheneverCarried ==
    [][\A i \in 1..Len(pending), reply \in HttpReplies :
          apiAskSettlesWith(i, reply) =>
             LET expected == IF CarriesDetail(reply.body)
                               THEN ToText(Member(JSONParse(reply.body), DetailKey))
                               ELSE Fallback(reply)
             IN  /\ toast'.description = expected
                 /\ Surfaced(Last(messages')) = expected]_vars

\* C6 amended: for a non-2xx response the message surfaced is the body's
\* `detail` when the body is valid JSON and carries a non-empty one;
\* otherwise (not JSON, no detail, or an empty detail) it is the fallback
\* 'Request failed: <status> <statusText>', which contains the status code.
C6_DetailWhenNonEmpty ==
    [][\A i \in 1..Len(pending), reply \in HttpReplies :
          apiAskSettlesWith(i, reply) =>
             LET expected == IF reply.body = BodyDetail THEN <<"n", "o">>
                             ELSE Fallback(reply)
             IN  /\ toast'.variant = "destructive"
                 /\ toast'.description = expected
                 /\ Surfaced(Last(messages')) = expected
                 /\ (reply.body # BodyDetail => ToString(reply.status) = expected[2])]_vars

C6_Witness ==
    /\ layout = "lib"
    /\ messages # <<>>
    /\ Last(messages).id.prefix = "error-"
    /\ toast.variant = "destructive"
    /\ toast.description = <<"n", "o">>

\* C7 as stated: the assistant message of a successful /ask call has the
\* response's answer as content, and its sources, confidence and
\* responseTime are the response's, the confidence possibly as a percentage.
C7_FieldsCarriedThrough ==
    [][\A i \in 1..Len(pending), reply \in OkReplies :
          (askSettlesWith(i, reply) \/ apiAskSettlesWith(i, reply)) =>
             LET m == messages'[Len(messages) + 1]
             IN  /\ m.role = "assistant"
                 /\ m.content = reply.data.answer
                 /\ m.sources = reply.data.sources
                 /\ m.confidence \in {reply.data.confidence, RoundPercent(reply.data.confidence)}
                 /\ m.responseTime = reply.data.response_time]_vars

\* C7 amended: content and sources are the response's answer and sources in
\* both layouts; the layout of services/api carries confidence and
\* response_time unchanged; the layout of lib/api shows
\* round(confidence * 100) and, as responseTime, the time it measured itself
\* between sending and receiving, not the response's response_time.
C7_FieldsPerLayout ==
    [][\A i \in 1..Len(pending), reply \in OkReplies :
          (askSettlesWith(i, reply) \/ apiAskSettlesWith(i, reply)) =>
             LET m == messages'[Len(messages) + 1]
             IN  /\ Len(messages') > Len(messages)
                 /\ SubSeq(messages', 1, Len(messages)) = messages
                 /\ m.role = "assistant"
                 /\ m.content = reply.data.answer
                 /\ m.sources = reply.data.sources
                 /\ layout = "service" =>
                       /\ m.confidence = reply.data.confidence
                       /\ m.responseTime = reply.data.response_time
                 /\ layout = "lib" =>
                       /\ m.confidence = ((reply.data.confidence + 5) \div 10) * 1000
                       /\ m.responseTime = now - pending[i].startTime]_vars

C7_Witness ==
    /\ layout = "lib"
    /\ messages # <<>>
    /\ Last(messages).id.prefix = "assistant-"
    /\ Last(messages).content = <<"A2">>
    /\ Last(messages).confidence = 86000
    /\ Last(messages).responseTime = 1

Blank(text) == \A k \in 1..Len(text) : text[k] = SP

\* No message of the conversation and no question sent to the backend or
\* scheduled is empty or made of blanks only.
NoBlankMessage ==
    /\ \A k \in 1..Len(messages) : messages[k].role = "user" => ~Blank(messages[k].content)
    /\ \A k \in 1..Len(pending) : ~Blank(pending[k].question)
    /\ \A k \in 1..Len(timers) : ~Blank(timers[k].question)

\* C8: a submission of empty or blank text, through any entry point,
\* appends no message and issues no request: the step changes neither the
\* messages nor the calls in flight, and no blank question is ever held.
C8_BlankNeverSent ==
    /\ []NoBlankMessage
    /\ [][(lastOp'.op \in {"ChatInterface.handleSubmit", "WelcomeScreen.handleSubmit"}
             /\ Blank(lastOp'.text))
           => (messages' = messages /\ pending' = pending /\ isLoading' = isLoading)]_vars

C8_Witness ==
    /\ layout = "lib"
    /\ lastOp = [op |-> "WelcomeScreen.handleSubmit", text |-> <<SP>>]
    /\ messages = <<>>
    /\ pending = <<>>

\* C9: right after handleClearChat the message sequence is empty, whatever
\* it held, and the handler has issued no request.
C9_ClearEmpties ==
    [][handleClearChat => (messages' = <<>> /\ pending' = pending)]_vars

C9_Witness ==
    /\ lastOp.op = "handleClearChat"
    /\ messages = <<>>
    /\ toast.title = "Chat cleared"
    /\ pending # <<>>

\* C10: an empty message sequence becomes non-empty only by a user message:
\* the reply to a request outstanding when the chat was cleared is not
\* appended to the cleared sequence.
C10_NoReplyAfterClear ==
    [][(messages = <<>> /\ messages' # <<>>) => messages'[1].role = "user"]_vars

\* C11: apiRequest reports the three failure kinds apart: a transport
\* failure always as the connectivity error (status 0, 'Network Error'), an
\* HTTP failure with the response's own non-2xx status, and a parse failure
\* of a successful response as neither: not with the connectivity error and
\* not with a status or message an HTTP or transport failure is reported with.
C11_FailureKindsApart ==
    [][\A i \in 1..Len(pending), reply \in Replies :
          (apiAskSettlesWith(i, reply) /\ reply.kind # "ok") =>
             LET e == apiRequest(reply)
             IN  /\ ~e.ok
                 /\ toast'.description = e.message
                 /\ reply.kind = "network" =>
                       /\ e.status = 0
                       /\ e.statusText = "Network Error"
                       /\ e.message = NetworkErrorText
                 /\ reply.kind = "http" =>
                       /\ e.status = reply.status
                       /\ e.status \notin 200..299
                       /\ e.message # NetworkErrorText
                 /\ reply.kind = "badjson" =>
                       \A other \in Replies :
                          other.kind \in {"network", "http"} =>
                             /\ apiRequest(other).status # e.status
                             /\ apiRequest(other).message # e.message]_vars

\* A step in which an awaited /ask call settles.
SettleStep ==
    /\ lastOp'.op = "handleSendMessage.settled"
    /\ Len(pending') = Len(pending) - 1

\* A step in which an awaited /ask call settles with a 2xx JSON response.
SettlesOk ==
    \E i \in 1..Len(pending), reply \in OkReplies :
        askSettlesWith(i, reply) \/ apiAskSettlesWith(i, reply)

\* C12: every failed /ask call, of whatever kind, surfaces: when it
\* settles, exactly one message is appended, an assistant-role error
\* message, one destructive notification is raised, and handleSendMessage
\* runs to its end (the loading flag is reset, the call is no longer pending).
C12_FailureSurfacesOnce ==
    [][(SettleStep /\ ~SettlesOk) =>
             /\ Len(messages') = Len(messages) + 1
             /\ SubSeq(messages', 1, Len(messages)) = messages
             /\ Last(messages').role = "assistant"
             /\ layout = "service" => Last(messages').content = ServiceErrorText
             /\ layout = "lib" => /\ Last(messages').id.prefix = "error-"
                                  /\ Last(messages').content[1] = "**Error**: "
             /\ toast'.variant = "destructive"
             /\ toast'.title = "Connection Error"
             /\ isLoading' = FALSE]_vars

C12_Witness ==
    /\ layout = "service"
    /\ messages # <<>>
    /\ Last(messages).content = ServiceErrorText
    /\ toast.variant = "destructive"
    /\ lastOp.op = "handleSendMessage.settled"

\* A step that runs handleSendMessage on non-blank text from a render in
\* which the loading flag is false.
SubmitsWhileIdle ==
    /\ ~isLoading
    /\ \/ /\ lastOp'.op \in {"ChatInterface.handleSubmit", "WelcomeScreen.handleSubmit",
                             "handleCommandPaletteSearch"}
          /\ (messages' # messages \/ lastOp' # lastOp)
          /\ ~Blank(lastOp'.text)
       \/ /\ lastOp'.op = "setTimeout"
          /\ Len(timers') < Len(timers)
          /\ \A k \in 1..Len(timers) : ~timers[k].snap.isLoading

\* C13: no error is fatal. With every backend call settling, the loading
\* flag always returns to false; and a non-blank submission made while it
\* is false is accepted: it appends a user message with the trimmed text
\* and issues one request.
C13_LoadingEndsAndRetryAccepted ==
    /\ (isLoading ~> ~isLoading)
    /\ [][SubmitsWhileIdle =>
            /\ Len(messages') = Len(messages) + 1
            /\ SubSeq(messages', 1, Len(messages)) = messages
            /\ Last(messages').role = "user"
            /\ Last(messages').content = Trim(lastOp'.text)
            /\ Len(pending') = Len(pending) + 1
            /\ Last(pending').question = Trim(lastOp'.text)
            /\ isLoading']_vars

C13_Witness ==
    /\ Len(messages) = 3
    /\ messages[2].role = "assistant"
    /\ messages[2].content = ServiceErrorText
    /\ messages[3].role = "user"
    /\ Len(pending) = 1
    /\ lastOp.op = "ChatInterface.handleSubmit"

\* C14: at most one /ask request is outstanding at any time, whatever the
\* interleaving of submits, sample-question clicks with their delayed
\* send, and command-palette searches.
C14_OneRequestOutstanding == Len(pending) <= 1

\* C15: whenever an /ask request issued by handleSendMessage has not yet
\* settled, isLoading is true.
C15_LoadingWhileOutstanding == pending # <<>> => isLoading

\* C16: every step leaves the message sequence as it is, appends at its
\* end (one message per setMessages: one in a step, or the two of a settle
\* step whose try and catch both append), or (handleClearChat only)
\* replaces it by the empty sequence; no message already in the sequence
\* is changed, moved or removed.
C16_AppendOrClear ==
    [][\/ messages' = messages
       \/ /\ Len(messages') = Len(messages) + 1
          /\ SubSeq(messages', 1, Len(messages)) = messages
       \/ /\ SettleStep
          /\ layout = "service"
          /\ Len(messages') = Len(messages) + 2
          /\ SubSeq(messages', 1, Len(messages)) = messages
       \/ /\ lastOp'.op = "handleClearChat"
          /\ layout = "service"
          /\ messages' = <<>>]_vars

C16_Witness ==
    /\ layout = "lib"
    /\ Len(messages) = 4
    /\ messages[1].role = "user"
    /\ messages[2].role = "assistant"
    /\ messages[3].role = "user"
    /\ messages[4].role = "assistant"

\* ------------------------------------------- claims: the stream decoder, again

\* The onChunk invocations made for the line `piece` of the stream.
CallsFor(piece) == {c \in 1..Len(chunks) : chunks[c] = ToCall(piece, 0)}

\* C17: when askStream has returned, onChunk has been invoked exactly once,
\* with its parsed payload, for every well-formed 'data: ' line that is
\* complete (newline-terminated) in the stream: none dropped, none twice.
C17_EachEventOnce ==
    streamPc = "done" =>
        \A k \in 1..Len(TerminatedLines(wire)) :
            IsEvent(TerminatedLines(wire)[k]) =>
                Cardinality(CallsFor(TerminatedLines(wire)[k])) = 1

\* C18: every onChunk invocation is for a line of the stream that begins
\* with 'data: ', and its value is the JSON parse of that line without its
\* first 6 characters; a line that does not begin with 'data: ' causes none.
C18_OnlyDataLines ==
    \A c \in 1..Len(chunks) :
        \E k \in 1..Len(Split(wire)) :
            /\ Split(wire)[k].at = chunks[c].at
            /\ StartsWith(Split(wire)[k].text, DataPrefix)
            /\ chunks[c].data = JSONParse(Slice(Split(wire)[k].text, PrefixLen))
\* C19: askStream ends with the stream. The read that finds the body
\* exhausted makes askStream return, without an error and without an
\* onChunk call, whatever the lines were; once it has returned it reads no
\* more and calls onChunk no more; and it never throws after the guard.
C19_ReturnsOnDone ==
    /\ [](streamPc = "done" => (pos = Len(wire) /\ streamError = NoError /\ readCalls >= 1))
    /\ [](streamPc = "failed" => readCalls = 0)
    /\ [][(streamPc = "reading" /\ pos = Len(wire) /\ readCalls' # readCalls)
            => (streamPc' = "done" /\ chunks' = chunks /\ streamError' = NoError)]_vars
    /\ [][streamPc = "done"
            => (readCalls' = readCalls /\ chunks' = chunks /\ streamPc' = "done")]_vars

C19_Witness ==
    /\ streamPc = "done"
    /\ wire = Body(<<LineBad, LineA>>, TRUE)
    /\ readCalls = 4
    /\ Len(chunks) = 1

\* ------------------------------------------------------- claims: the theme

\* C20: the theme preference is the one persisted flag and round-trips.
\* In the layout that has toggleDarkMode, a reload restores the isDarkMode
\* shown before it, after any number of toggles; the stored item changes
\* only in a toggleDarkMode step, to the name of the theme then shown; and
\* no send, settle, source change, sidebar toggle or palette search writes it.
C20_ThemeRoundTrips ==
    /\ [][(reload /\ layout = "lib") => isDarkMode' = isDarkMode]_vars
    /\ [][savedTheme' # savedTheme =>
            /\ lastOp'.op = "toggleDarkMode"
            /\ isDarkMode' = ~isDarkMode
            /\ savedTheme' = IF isDarkMode' THEN "dark" ELSE "light"]_vars
    /\ [](layout = "lib" =>
            isDarkMode = (savedTheme = "dark" \/ (savedTheme = "null" /\ prefersDark)))

C20_Witness ==
    /\ layout = "lib"
    /\ lastOp.op = "reload"
    /\ savedTheme = "light"
    /\ prefersDark
    /\ ~isDarkMode

\* ------------------------------------------------ claims: requests and replies

\* The body posted to /ask for an awaited call.
RequestBody(call) ==
    IF layout = "service" THEN AskBody(call.question, call.source)
    ELSE ApiAskBody(call.question, call.source, call.conversation_id)

Keys(body) == {m[1] : m \in body}

\* C21: every /ask request has a body {question, source_filter?, k,
\* temperature, max_tokens}: question is the submitted text and
\* source_filter the selected source, absent when none is selected.
C21_AskBodyShape ==
    \A n \in 1..Len(pending) :
        LET body == RequestBody(pending[n])
        IN  /\ {"question", "k", "temperature", "max_tokens"} \subseteq Keys(body)
            /\ Keys(body) \subseteq {"question", "source_filter", "k", "temperature", "max_tokens"}
            /\ <<"question", pending[n].question>> \in body
            /\ IF pending[n].source \in SourceIds
                 THEN <<"source_filter", <<pending[n].source>> >> \in body
                 ELSE "source_filter" \notin Keys(body)

\* C22: every accepted submission produces exactly one reply: the step
\* that issues a request appends exactly one user message, with the
\* question, and the step in which the call settles appends exactly one
\* assistant message, never none and never two.
C22_OneReplyPerSubmission ==
    [][/\ Len(pending') > Len(pending) =>
            /\ Len(pending') = Len(pending) + 1
            /\ Len(messages') = Len(messages) + 1
            /\ Last(messages').role = "user"
            /\ Last(messages').content = Last(pending').question
       /\ SettleStep =>
            /\ Len(messages') = Len(messages) + 1
            /\ Last(messages').role = "assistant"]_vars

\* C23: in every state the message sequence alternates strictly and
\* starts with a user message: the odd places hold user messages, the even
\* places the assistant message answering the one before.
C23_StrictAlternation ==
    \A k \in 1..Len(messages) :
        messages[k].role = IF k % 2 = 1 THEN "user" ELSE "assistant"

\* C24: in every state the ids of the messages of the sequence are
\* pairwise distinct.
C24_IdsDistinct ==
    \A i, j \in 1..Len(messages) : i # j => messages[i].id # messages[j].id

\* C25: the conversation id, once set, never changes, and every /ask
\* request issued after it was set carries it.
C25_ConversationIdStable ==
    [][conversationId # NoConversation =>
          /\ conversationId' = conversationId
          /\ Len(pending') > Len(pending) =>
                Last(pending').conversation_id = conversationId]_vars

\* ------------------------------------------------- claims: the command palette

\* C26: while the palette is open, selectedIndex is never negative and,
\* when the filtered list is not empty, is at most allItems.length - 1.
C26_SelectedIndexInRange ==
    showCommandPalette =>
        /\ selectedIndex >= 0
        /\ Len(allItems(query)) > 0 => selectedIndex <= Len(allItems(query)) - 1

\* C27: in the open palette, Enter on a selected recent search calls
\* onSearch once with its text (one user message, one request, both with
\* that text) and closes the palette; Enter on a selected quick action and
\* Escape close it without a call; while it is closed, Enter, Escape and
\* the arrows call nothing and change nothing.
C27_KeysOfThePalette ==
    [][/\ (keyEnter /\ showCommandPalette /\ HasSelectedItem) =>
            LET item == allItems(query)[selectedIndex + 1]
            IN  /\ ~showCommandPalette'
                /\ item.isSearch =>
                      /\ Len(pending') = Len(pending) + 1
                      /\ SubSeq(pending', 1, Len(pending)) = pending
                      /\ Last(pending').question = <<item.title>>
                      /\ Len(messages') = Len(messages) + 1
                      /\ Last(messages').role = "user"
                      /\ Last(messages').content = <<item.title>>
                /\ ~item.isSearch => (pending' = pending /\ messages' = messages)
       /\ (keyEscape /\ showCommandPalette) =>
            (~showCommandPalette' /\ pending' = pending /\ messages' = messages)
       /\ ((keyEnter \/ keyEscape \/ keyArrow) /\ ~showCommandPalette) =>
            UNCHANGED <<messages, pending, isLoading, showCommandPalette, query,
                        selectedIndex>>]_vars

C27_Witness ==
    /\ lastOp = Op("keydown", <<"Enter">>)
    /\ ~showCommandPalette
    /\ Len(pending) = 1
    /\ pending[1].question = <<"FastAPI authentication setup">>
    /\ Len(messages) = 1

\* -------------------------------------- claims: the theme's representations

ThemeNow == <<isDarkMode, rootDark, savedTheme>>

\* C28 as stated: in the layout with toggleDarkMode, isDarkMode is true
\* exactly when the document root carries the 'dark' class; once
\* toggleDarkMode has been called the stored value is 'dark' exactly when
\* isDarkMode is true; and two consecutive toggles restore isDarkMode, the
\* class and the stored value to what they were before the first of them.
C28_TwoTogglesRestoreAll ==
    /\ [](layout = "lib" => (isDarkMode <=> rootDark))
    /\ [][toggleDarkMode => ((savedTheme' = "dark") <=> isDarkMode')]_vars
    /\ []((layout = "lib" /\ savedTheme # NoTheme) =>
            ((savedTheme = "dark") <=> isDarkMode))
    /\ [][(toggleDarkMode /\ lastOp.op = "toggleDarkMode") =>
            ThemeNow' = themeBefore]_vars

\* C28, amended: the same agreement of the three representations; two
\* consecutive toggles restore isDarkMode and the class, and restore the
\* stored value when one was stored before the first of them (from nothing
\* stored they leave the name of the theme shown).
C28_TwoTogglesRestoreShown ==
    /\ [](layout = "lib" => (isDarkMode <=> rootDark))
    /\ [][toggleDarkMode => ((savedTheme' = "dark") <=> isDarkMode')]_vars
    /\ []((layout = "lib" /\ savedTheme # NoTheme) =>
            ((savedTheme = "dark") <=> isDarkMode))
    /\ [][(toggleDarkMode /\ lastOp.op = "toggleDarkMode") =>
            /\ isDarkMode' = themeBefore[1]
            /\ rootDark' = themeBefore[2]
            /\ savedTheme' = IF themeBefore[3] = NoTheme
                             THEN StoredTheme(isDarkMode')
                             ELSE themeBefore[3]]_vars

\* Two toggles in a row on a first visit: shown as before, now stored.
C28_Witness ==
    /\ layout = "lib"
    /\ lastOp.op = "toggleDarkMode"
    /\ themeBefore[3] # NoTheme
    /\ isDarkMode = prefersDark
    /\ rootDark = isDarkMode
    /\ savedTheme = StoredTheme(isDarkMode)

\* -------------------------------------------------- claims: the upload

\* C29: handleFileUpload changes neither the messages nor the loading flag
\* nor the selected source, before and after its await; when
\* uploadDocument throws it raises the destructive "Upload failed"
\* notification and throws the same error to its caller; when it returns,
\* the handler notifies the upload and returns the backend's data.
C29_UploadLeavesConversation ==
    [][/\ (handleFileUpload \/ uploadSettles) =>
            UNCHANGED <<messages, isLoading, selectedSource, pending, conversationId>>
       /\ \A i \in 1..Len(uploads), reply \in UploadReplies :
            uploadSettlesWith(i, reply) =>
               IF reply.kind = "ok"
                 THEN /\ uploadOutcome'.kind = "returned"
                      /\ uploadOutcome'.data = reply.data
                      /\ toast'.variant # "destructive"
                 ELSE /\ uploadOutcome'.kind = "thrown"
                      /\ uploadOutcome'.message = uploadDocument(reply).message
                      /\ toast'.variant = "destructive"
                      /\ toast'.title = "Upload failed"]_vars

\* A failed upload settled while a question was outstanding.
C29_Witness ==
    /\ lastOp.op = "handleFileUpload.settled"
    /\ uploadOutcome.kind = "thrown"
    /\ toast.variant = "destructive"
    /\ isLoading
    /\ Len(messages) = 1

====
